---------------------------- MODULE Spec2Model ----------------------------
(***************************************************************************)
(* A model of mlflow/data/artifact_dataset_sources.py: the registration    *)
(* pass register_artifact_dataset_sources, the class factory               *)
(* _create_dataset_source_for_artifact_repo and the methods of the         *)
(* generated ArtifactRepoSource class.                                     *)
(*                                                                         *)
(* Python strings are sequences of one-character strings, so that          *)
(* capitalisation, splitting and URI scheme parsing are computed.  The     *)
(* substrings "ArtifactRepository" and "ArtifactDatasetSource" are single  *)
(* elements of such a sequence.                                            *)
(***************************************************************************)
EXTENDS Naturals, Sequences, FiniteSets

VARIABLES
    schemes_to_artifact_repos, \* the backend directory, in iteration order
    docstrings,                \* FALSE when the interpreter strips docstrings
    sources,                   \* the dataset source registry (resolution table)
    registered_source_schemes, \* the pass's set of claimed schemes
    idx,                       \* number of directory entries the loop has taken
    pc,                        \* position of the pass
    scheme,                    \* loop variable
    dataset_source_name,       \* derived type name
    dataset_source,            \* <<>> or <<the class built in the try block>>
    outcome,                   \* how the current iteration has ended so far
    warned,                    \* schemes named by warnings.warn, in order
    calls,                     \* number of calls of the pass so far
    cls,                       \* the generated class the method calls are made on
    input,                     \* the argument of the method call
    stage,                     \* which methods have been applied
    value                      \* the latest method result

regVars == <<schemes_to_artifact_repos, docstrings, sources,
             registered_source_schemes, idx, pc, scheme, dataset_source_name,
             dataset_source, outcome, warned, calls>>
srcVars == <<cls, input, stage, value>>
vars == <<regVars, srcVars>>

----------------------------------------------------------------------------
(* Bounds *)

MaxDir == 3
MaxCalls == 2

----------------------------------------------------------------------------
(* Characters and strings *)

Letters ==
    << <<"a","A">>, <<"b","B">>, <<"c","C">>, <<"d","D">>, <<"e","E">>,
       <<"f","F">>, <<"g","G">>, <<"h","H">>, <<"i","I">>, <<"j","J">>,
       <<"k","K">>, <<"l","L">>, <<"m","M">>, <<"n","N">>, <<"o","O">>,
       <<"p","P">>, <<"q","Q">>, <<"r","R">>, <<"s","S">>, <<"t","T">>,
       <<"u","U">>, <<"v","V">>, <<"w","W">>, <<"x","X">>, <<"y","Y">>,
       <<"z","Z">> >>

Digits == {"0","1","2","3","4","5","6","7","8","9"}

IsLower(c) == \E i \in DOMAIN Letters : Letters[i][1] = c
IsUpper(c) == \E i \in DOMAIN Letters : Letters[i][2] = c
IsAlpha(c) == IsLower(c) \/ IsUpper(c)

upper(c) == IF IsLower(c)
            THEN Letters[CHOOSE i \in DOMAIN Letters : Letters[i][1] = c][2]
            ELSE c
lower(c) == IF IsUpper(c)
            THEN Letters[CHOOSE i \in DOMAIN Letters : Letters[i][2] = c][1]
            ELSE c

\* str.lower()
Lowered(s) == [i \in DOMAIN s |-> lower(s[i])]

\* str.capitalize(): first character upper-cased, the rest lower-cased
capitalize(s) == [i \in DOMAIN s |-> IF i = 1 THEN upper(s[i]) ELSE lower(s[i])]

\* index of the first element of s in set C, 0 when there is none (str.find)
Find(s, C) == IF \E i \in DOMAIN s : s[i] \in C
              THEN CHOOSE i \in DOMAIN s : s[i] \in C /\ \A j \in 1..(i-1) : s[j] \notin C
              ELSE 0

\* re.split(r"[-_]", s): the parts between separators, empty parts included
RECURSIVE re_split(_)
re_split(s) ==
    LET i == Find(s, {"-", "_"})
    IN  IF i = 0 THEN <<s>>
        ELSE <<SubSeq(s, 1, i - 1)>> \o re_split(SubSeq(s, i + 1, Len(s)))

\* "".join(parts)
RECURSIVE join(_)
join(parts) == IF parts = <<>> THEN <<>> ELSE Head(parts) \o join(Tail(parts))

camelcase_scheme(s) ==
    LET parts == re_split(s)
    IN  join([i \in DOMAIN parts |-> capitalize(parts[i])])

ArtifactRepository == "ArtifactRepository"
ArtifactDatasetSource == "ArtifactDatasetSource"

\* str.replace("ArtifactRepository", "ArtifactDatasetSource")
replace(name) ==
    [i \in DOMAIN name |-> IF name[i] = ArtifactRepository
                           THEN ArtifactDatasetSource ELSE name[i]]

----------------------------------------------------------------------------
(* The registration pass *)

S_empty == <<>>
S_file == <<"f","i","l","e">>
S_local == <<"l","o","c","a","l">>
S_s3 == <<"s","3">>
S_gs == <<"g","s">>
S_http == <<"h","t","t","p">>
S_https == <<"h","t","t","p","s">>
S_runs == <<"r","u","n","s">>
S_models == <<"m","o","d","e","l","s">>
S_mlflow_artifacts ==
    <<"m","l","f","l","o","w","-","a","r","t","i","f","a","c","t","s">>
S_dbfs == <<"d","b","f","s">>
S_my_hyphen == <<"m","y","-","s">>
S_my_under == <<"m","y","_","s">>

artifact_schemes_to_exclude ==
    {S_http, S_https, S_runs, S_models, S_mlflow_artifacts, S_dbfs}

\* A backend handle: has_name is FALSE for a callable without __name__
\* (a functools.partial, an instance with __call__).
LocalArtifactRepository ==
    [has_name |-> TRUE, name |-> <<"L","o","c","a","l", ArtifactRepository>>]
S3ArtifactRepository ==
    [has_name |-> TRUE, name |-> <<"S","3", ArtifactRepository>>]
HttpArtifactRepository ==
    [has_name |-> TRUE, name |-> <<"H","t","t","p", ArtifactRepository>>]
RunsArtifactRepository ==
    [has_name |-> TRUE, name |-> <<"R","u","n","s", ArtifactRepository>>]
ModelsArtifactRepository ==
    [has_name |-> TRUE, name |-> <<"M","o","d","e","l","s", ArtifactRepository>>]
repo_factory ==
    [has_name |-> TRUE, name |-> <<"r","e","p","o","_","f","a","c","t","o","r","y">>]
partial_factory ==
    [has_name |-> FALSE, name |-> <<>>]

\* The entries a backend directory is drawn from.
Backends ==
    { [scheme |-> S_empty,     artifact_repo |-> LocalArtifactRepository],
      [scheme |-> S_file,      artifact_repo |-> LocalArtifactRepository],
      [scheme |-> S_s3,        artifact_repo |-> S3ArtifactRepository],
      [scheme |-> S_http,      artifact_repo |-> HttpArtifactRepository],
      [scheme |-> S_https,     artifact_repo |-> HttpArtifactRepository],
      [scheme |-> S_runs,      artifact_repo |-> RunsArtifactRepository],
      [scheme |-> S_models,    artifact_repo |-> ModelsArtifactRepository],
      [scheme |-> S_mlflow_artifacts, artifact_repo |-> repo_factory],
      [scheme |-> S_dbfs,      artifact_repo |-> repo_factory],
      [scheme |-> S_my_hyphen, artifact_repo |-> repo_factory],
      [scheme |-> S_my_under,  artifact_repo |-> repo_factory],
      [scheme |-> S_gs,        artifact_repo |-> partial_factory] }

\* get_registered_artifact_repositories(): a dict, so its keys are distinct
Directories ==
    { d \in UNION { [1..n -> Backends] : n \in 0..MaxDir } :
        \A i, j \in DOMAIN d : d[i].scheme = d[j].scheme => i = j }

\* line 35
Skipped_NoExclusion(s, claimed) == s \in claimed
Skipped(s, claimed) == s \in artifact_schemes_to_exclude \/ s \in claimed

\* lines 38-56: reading __name__ raises when the handle has none
DerivationRaises(artifact_repo) == ~artifact_repo.has_name

DeriveName(s, artifact_repo) ==
    IF \E i \in DOMAIN artifact_repo.name : artifact_repo.name[i] = ArtifactRepository
    THEN replace(artifact_repo.name)
    ELSE camelcase_scheme(s) \o <<ArtifactDatasetSource>>

\* line 59
AddClaimed_Forgotten(claimed, s) == claimed
AddClaimed(claimed, s) == claimed \cup {s}

\* lines 74-82
SourceType(s) == IF s \in {S_empty, S_file} THEN S_local ELSE s

class_docstring(s) ==
    IF s \in {S_empty, S_file}
    THEN <<"Represents the source of a dataset stored on the local filesystem.">>
    ELSE <<"Represents a filesystem-based or blob-storage-based dataset source identified by a URI with scheme '">>
         \o s \o <<"'.">>

\* lines 165-168: str.format on a docstring that the interpreter has stripped
\* (__doc__ is None) raises
BuildRaises == ~docstrings

\* lines 71-169: the generated class, as the data its methods close over
_create_dataset_source_for_artifact_repo(s, name) ==
    [scheme |-> s, name |-> name, source_type |-> SourceType(s),
     doc |-> class_docstring(s)]

Names(table) == {table[i].name : i \in DOMAIN table}

\* mlflow.data.dataset_source_registry.register_dataset_source: appends to the
\* ordered table; a type name already in the table is a registration error
register_dataset_source_NoCheck(table, source) ==
    [raised |-> FALSE, sources |-> Append(table, source)]
register_dataset_source_SchemeCheck(table, source) ==
    IF \E i \in DOMAIN table : table[i].scheme = source.scheme
    THEN [raised |-> TRUE, sources |-> table]
    ELSE [raised |-> FALSE, sources |-> Append(table, source)]
register_dataset_source(table, source) ==
    IF source.name \in Names(table)
    THEN [raised |-> TRUE, sources |-> table]
    ELSE [raised |-> FALSE, sources |-> Append(table, source)]

NoScheme == <<"<unset>">>
NoClass == _create_dataset_source_for_artifact_repo(NoScheme, NoScheme)
NoInput == [as |-> "none", arg |-> <<>>]

SrcIdle ==
    /\ cls = NoClass
    /\ input = NoInput
    /\ stage = "idle"
    /\ value = NoInput

Init ==
    /\ schemes_to_artifact_repos \in Directories
    /\ docstrings \in BOOLEAN
    /\ sources = <<>>
    /\ registered_source_schemes = {}
    /\ idx = 0
    /\ pc = "idle"
    /\ scheme = NoScheme
    /\ dataset_source_name = <<>>
    /\ dataset_source = <<>>
    /\ outcome = "none"
    /\ warned = <<>>
    /\ calls = 0
    /\ SrcIdle

\* line 15-33: a call of the pass; the set of claimed schemes is local to it
Call ==
    /\ pc \in {"idle", "done", "raised"}
    /\ calls < MaxCalls
    /\ calls' = calls + 1
    /\ registered_source_schemes' = {}
    /\ idx' = 0
    /\ pc' = "loop"
    /\ scheme' = NoScheme
    /\ dataset_source_name' = <<>>
    /\ dataset_source' = <<>>
    /\ outcome' = "none"
    /\ UNCHANGED <<schemes_to_artifact_repos, docstrings, sources, warned>>

\* line 34: the directory is exhausted
LoopEnd ==
    /\ pc = "loop"
    /\ idx = Len(schemes_to_artifact_repos)
    /\ pc' = "done"
    /\ UNCHANGED <<schemes_to_artifact_repos, docstrings, sources,
                   registered_source_schemes, idx, scheme, dataset_source_name,
                   dataset_source, outcome, warned, calls>>

\* lines 34-36: the next entry is excluded or already claimed
LoopSkip ==
    /\ pc = "loop"
    /\ idx < Len(schemes_to_artifact_repos)
    /\ LET s == schemes_to_artifact_repos[idx + 1].scheme
       IN  /\ Skipped(s, registered_source_schemes)
           /\ scheme' = s
    /\ idx' = idx + 1
    /\ outcome' = "skipped"
    /\ UNCHANGED <<schemes_to_artifact_repos, docstrings, sources,
                   registered_source_schemes, pc, dataset_source_name,
                   dataset_source, warned, calls>>

\* lines 34-36: the next entry is taken
LoopTake ==
    /\ pc = "loop"
    /\ idx < Len(schemes_to_artifact_repos)
    /\ LET s == schemes_to_artifact_repos[idx + 1].scheme
       IN  /\ ~Skipped(s, registered_source_schemes)
           /\ scheme' = s
    /\ idx' = idx + 1
    /\ outcome' = "pending"
    /\ pc' = "derive"
    /\ UNCHANGED <<schemes_to_artifact_repos, docstrings, sources,
                   registered_source_schemes, dataset_source_name,
                   dataset_source, warned, calls>>

\* lines 38-56, outside the try block: the type name is derived
DeriveOk ==
    /\ pc = "derive"
    /\ ~DerivationRaises(schemes_to_artifact_repos[idx].artifact_repo)
    /\ dataset_source_name' =
           DeriveName(scheme, schemes_to_artifact_repos[idx].artifact_repo)
    /\ pc' = "try"
    /\ UNCHANGED <<schemes_to_artifact_repos, docstrings, sources,
                   registered_source_schemes, idx, scheme, dataset_source,
                   outcome, warned, calls>>

\* lines 38-56, outside the try block: the exception leaves the function
DeriveRaise ==
    /\ pc = "derive"
    /\ DerivationRaises(schemes_to_artifact_repos[idx].artifact_repo)
    /\ pc' = "raised"
    /\ outcome' = "derive_raised"
    /\ UNCHANGED <<schemes_to_artifact_repos, docstrings, sources,
                   registered_source_schemes, idx, scheme, dataset_source_name,
                   dataset_source, warned, calls>>

\* line 59
Claim ==
    /\ pc = "try"
    /\ registered_source_schemes' = AddClaimed(registered_source_schemes, scheme)
    /\ pc' = "build"
    /\ UNCHANGED <<schemes_to_artifact_repos, docstrings, sources, idx, scheme,
                   dataset_source_name, dataset_source, outcome, warned, calls>>

\* lines 60-62
BuildOk ==
    /\ pc = "build"
    /\ ~BuildRaises
    /\ dataset_source' =
           <<_create_dataset_source_for_artifact_repo(scheme, dataset_source_name)>>
    /\ pc' = "insert"
    /\ UNCHANGED <<schemes_to_artifact_repos, docstrings, sources,
                   registered_source_schemes, idx, scheme, dataset_source_name,
                   outcome, warned, calls>>

\* lines 60-62 raise, lines 64-68 warn
BuildFail ==
    /\ pc = "build"
    /\ BuildRaises
    /\ warned' = Append(warned, scheme)
    /\ outcome' = "build_failed"
    /\ pc' = "loop"
    /\ UNCHANGED <<schemes_to_artifact_repos, docstrings, sources,
                   registered_source_schemes, idx, scheme, dataset_source_name,
                   dataset_source, calls>>

\* line 63
InsertOk ==
    /\ pc = "insert"
    /\ LET r == register_dataset_source(sources, dataset_source[1])
       IN  /\ ~r.raised
           /\ sources' = r.sources
    /\ outcome' = "registered"
    /\ pc' = "loop"
    /\ UNCHANGED <<schemes_to_artifact_repos, docstrings,
                   registered_source_schemes, idx, scheme, dataset_source_name,
                   dataset_source, warned, calls>>

\* line 63 raises, lines 64-68 warn
InsertFail ==
    /\ pc = "insert"
    /\ LET r == register_dataset_source(sources, dataset_source[1])
       IN  /\ r.raised
           /\ sources' = r.sources
    /\ warned' = Append(warned, scheme)
    /\ outcome' = "insert_failed"
    /\ pc' = "loop"
    /\ UNCHANGED <<schemes_to_artifact_repos, docstrings,
                   registered_source_schemes, idx, scheme, dataset_source_name,
                   dataset_source, calls>>

----------------------------------------------------------------------------
(* The methods of a generated class *)

PyNone == [t |-> "None", v |-> <<>>]
PyStr(s) == [t |-> "str", v |-> s]

T_s3 == <<"s","3",":","/","/","b","/","k">>
T_S3 == <<"S","3",":","/","/","b","/","k">>
T_tmp == <<"/","t","m","p","/","d","a","t","a">>
T_https == <<"h","t","t","p","s",":","/","/","e","/","x">>
T_runs == <<"r","u","n","s",":","/","a","/","d">>
T_file == <<"f","i","l","e",":","/","/","/","t">>
T_bracket == <<"s","3",":","/","/","[","b">>
T_my == <<"m","y","-","s",":","/","/","b">>
T_s3_path == <<"s","3",":","/","b","/","k">>
T_five == <<"5">>

\* urllib.parse.scheme_chars
scheme_chars == Digits \cup {"+", "-", "."}
IsSchemeChar(c) == IsAlpha(c) \/ c \in scheme_chars

\* urllib.parse.urlparse, as far as its scheme and its ValueError go: the text
\* before the first ":" is the scheme, lower-cased, when it starts with a letter
\* and holds scheme characters only; a netloc with an unbalanced bracket raises
urlparse(url) ==
    LET i == Find(url, {":"})
        has_scheme == /\ i > 1
                      /\ IsAlpha(url[1])
                      /\ \A j \in 1..(i - 1) : IsSchemeChar(url[j])
        rest == IF has_scheme THEN SubSeq(url, i + 1, Len(url)) ELSE url
        has_netloc == Len(rest) >= 2 /\ rest[1] = "/" /\ rest[2] = "/"
        after == SubSeq(rest, 3, Len(rest))
        delim == Find(after, {"/", "?", "#"})
        netloc == IF ~has_netloc THEN <<>>
                  ELSE IF delim = 0 THEN after ELSE SubSeq(after, 1, delim - 1)
        open == \E j \in DOMAIN netloc : netloc[j] = "["
        close == \E j \in DOMAIN netloc : netloc[j] = "]"
    IN  [raised |-> (open /\ ~close) \/ (close /\ ~open),
         scheme |-> IF has_scheme THEN Lowered(SubSeq(url, 1, i - 1)) ELSE <<>>]

\* mlflow.utils.uri.is_local_uri(uri, is_tracking_or_registry_uri=False): a
\* reference with no network scheme
is_local_uri(uri) ==
    LET parsed == urlparse(uri)
    IN  [raised |-> parsed.raised,
         result |-> ~parsed.raised /\ parsed.scheme \in {S_empty, S_file}]

\* A raw source: a str, a pathlib.Path, another object whose str() is text, or
\* an object whose __str__ raises.
RawSources ==
    {[kind |-> "str", text |-> t] :
        t \in {T_s3, T_S3, T_tmp, T_https, T_runs, T_file, T_bracket, T_my, <<>>}}
    \cup {[kind |-> "Path", text |-> t] : t \in {T_tmp, T_s3_path}}
    \cup {[kind |-> "object", text |-> t] : t \in {T_five, T_s3, T_tmp}}
    \cup {[kind |-> "unprintable", text |-> <<>>]}

StrRaises(raw_source) == raw_source.kind = "unprintable"

\* lines 121-136
_can_resolve_NoTry(c, raw_source) ==
    LET is_local_source_type == c.source_type = S_local
    IN  IF raw_source.kind # "str" /\ (raw_source.kind # "Path" /\ is_local_source_type)
        THEN [raised |-> FALSE, result |-> FALSE]
        ELSE IF StrRaises(raw_source)
        THEN [raised |-> TRUE, result |-> FALSE]
        ELSE IF is_local_source_type
        THEN is_local_uri(raw_source.text)
        ELSE [raised |-> urlparse(raw_source.text).raised,
              result |-> /\ ~urlparse(raw_source.text).raised
                         /\ urlparse(raw_source.text).scheme = c.scheme]

_can_resolve_NoTypeGuard(c, raw_source) ==
    LET is_local_source_type == c.source_type = S_local
    IN  IF StrRaises(raw_source)
        THEN [raised |-> FALSE, result |-> FALSE]
        ELSE IF is_local_source_type
        THEN [raised |-> FALSE,
              result |-> /\ ~is_local_uri(raw_source.text).raised
                         /\ is_local_uri(raw_source.text).result]
        ELSE [raised |-> FALSE,
              result |-> /\ ~urlparse(raw_source.text).raised
                         /\ urlparse(raw_source.text).scheme = c.scheme]

_can_resolve(c, raw_source) ==
    LET is_local_source_type == c.source_type = S_local
    IN  IF raw_source.kind # "str" /\ (raw_source.kind # "Path" /\ is_local_source_type)
        THEN [raised |-> FALSE, result |-> FALSE]
        ELSE IF StrRaises(raw_source)
        THEN [raised |-> FALSE, result |-> FALSE]
        ELSE IF is_local_source_type
        THEN [raised |-> FALSE,
              result |-> /\ ~is_local_uri(raw_source.text).raised
                         /\ is_local_uri(raw_source.text).result]
        ELSE [raised |-> FALSE,
              result |-> /\ ~urlparse(raw_source.text).raised
                         /\ urlparse(raw_source.text).scheme = c.scheme]

\* lines 90-91: an instance of the generated class
ArtifactRepoSource(c, uri) == [cls |-> c.name, uri |-> uri]

\* lines 138-140
_resolve(c, raw_source) ==
    IF StrRaises(raw_source)
    THEN [raised |-> TRUE, source |-> ArtifactRepoSource(c, PyNone)]
    ELSE [raised |-> FALSE, source |-> ArtifactRepoSource(c, PyStr(raw_source.text))]

\* lines 142-148
_to_dict(self) == [k \in {"uri"} |-> self.uri]

INVALID_PARAMETER_VALUE == "INVALID_PARAMETER_VALUE"

\* lines 154-157
MissingKeyError(c) ==
    [error_code |-> INVALID_PARAMETER_VALUE,
     message |-> <<"Failed to parse ">> \o c.name
                 \o <<". Missing expected key: ", "\"uri\"">>]

\* dict.get("uri")
Get(source_dict, key) ==
    IF key \in DOMAIN source_dict THEN source_dict[key] ELSE PyNone

\* lines 150-159
_from_dict_Falsy(c, source_dict) ==
    LET uri == Get(source_dict, "uri")
    IN  IF uri = PyNone \/ uri = PyStr(<<>>)
        THEN [raised |-> TRUE, error |-> MissingKeyError(c),
              source |-> ArtifactRepoSource(c, PyNone)]
        ELSE [raised |-> FALSE, error |-> MissingKeyError(c),
              source |-> ArtifactRepoSource(c, uri)]

_from_dict_KeyError(c, source_dict) ==
    IF "uri" \notin DOMAIN source_dict
    THEN [raised |-> TRUE,
          error |-> [error_code |-> "KeyError", message |-> <<"uri">>],
          source |-> ArtifactRepoSource(c, PyNone)]
    ELSE IF source_dict["uri"] = PyNone
    THEN [raised |-> TRUE, error |-> MissingKeyError(c),
          source |-> ArtifactRepoSource(c, PyNone)]
    ELSE [raised |-> FALSE, error |-> MissingKeyError(c),
          source |-> ArtifactRepoSource(c, source_dict["uri"])]

_from_dict(c, source_dict) ==
    LET uri == Get(source_dict, "uri")
    IN  IF uri = PyNone
        THEN [raised |-> TRUE, error |-> MissingKeyError(c),
              source |-> ArtifactRepoSource(c, PyNone)]
        ELSE [raised |-> FALSE, error |-> MissingKeyError(c),
              source |-> ArtifactRepoSource(c, uri)]

S_S3 == <<"S","3">>

\* The (scheme, backend) pairs the classes under call are generated from.
ClassBackends ==
    { [scheme |-> S_empty,     artifact_repo |-> LocalArtifactRepository],
      [scheme |-> S_file,      artifact_repo |-> LocalArtifactRepository],
      [scheme |-> S_s3,        artifact_repo |-> S3ArtifactRepository],
      [scheme |-> S_S3,        artifact_repo |-> repo_factory],
      [scheme |-> S_my_hyphen, artifact_repo |-> repo_factory],
      [scheme |-> S_local,     artifact_repo |-> repo_factory] }

Classes ==
    { _create_dataset_source_for_artifact_repo(
          b.scheme, DeriveName(b.scheme, b.artifact_repo)) : b \in ClassBackends }

UriValues == {PyStr(<<>>), PyStr(T_s3), PyNone}

Keys == {"uri", "name"}

Dicts == UNION { [K -> UriValues] : K \in SUBSET Keys }

Instances(c) == {ArtifactRepoSource(c, u) : u \in UriValues}

Inputs(c) ==
    {[as |-> "raw", arg |-> r] : r \in RawSources}
    \cup {[as |-> "dict", arg |-> d] : d \in Dicts}
    \cup {[as |-> "source", arg |-> r] : r \in Instances(c)}

RegIdle ==
    /\ schemes_to_artifact_repos = <<>>
    /\ docstrings = TRUE
    /\ sources = <<>>
    /\ registered_source_schemes = {}
    /\ idx = 0
    /\ pc = "idle"
    /\ scheme = NoScheme
    /\ dataset_source_name = <<>>
    /\ dataset_source = <<>>
    /\ outcome = "none"
    /\ warned = <<>>
    /\ calls = 0

InitSource ==
    /\ RegIdle
    /\ cls \in Classes
    /\ input \in Inputs(cls)
    /\ stage = "start"
    /\ value = NoInput

CanResolve ==
    /\ stage = "start"
    /\ input.as = "raw"
    /\ value' = _can_resolve(cls, input.arg)
    /\ stage' = "can_resolve"
    /\ UNCHANGED <<cls, input>>

Resolve ==
    /\ stage = "start"
    /\ input.as = "raw"
    /\ value' = _resolve(cls, input.arg)
    /\ stage' = "resolve"
    /\ UNCHANGED <<cls, input>>

ToDict ==
    /\ stage = "start"
    /\ input.as = "source"
    /\ value' = _to_dict(input.arg)
    /\ stage' = "to_dict"
    /\ UNCHANGED <<cls, input>>

FromDictOfToDict ==
    /\ stage = "to_dict"
    /\ value' = _from_dict(cls, value)
    /\ stage' = "to_dict_from_dict"
    /\ UNCHANGED <<cls, input>>

FromDict ==
    /\ stage = "start"
    /\ input.as = "dict"
    /\ value' = _from_dict(cls, input.arg)
    /\ stage' = "from_dict"
    /\ UNCHANGED <<cls, input>>

ToDictOfFromDict ==
    /\ stage = "from_dict"
    /\ ~value.raised
    /\ value' = _to_dict(value.source)
    /\ stage' = "from_dict_to_dict"
    /\ UNCHANGED <<cls, input>>

NextSource ==
    \/ (CanResolve /\ UNCHANGED regVars)
    \/ (Resolve /\ UNCHANGED regVars)
    \/ (ToDict /\ UNCHANGED regVars)
    \/ (FromDictOfToDict /\ UNCHANGED regVars)
    \/ (FromDict /\ UNCHANGED regVars)
    \/ (ToDictOfFromDict /\ UNCHANGED regVars)

SpecSource == InitSource /\ [][NextSource]_vars

Next ==
    \/ (Call /\ UNCHANGED srcVars)
    \/ (LoopEnd /\ UNCHANGED srcVars)
    \/ (LoopSkip /\ UNCHANGED srcVars)
    \/ (LoopTake /\ UNCHANGED srcVars)
    \/ (DeriveOk /\ UNCHANGED srcVars)
    \/ (DeriveRaise /\ UNCHANGED srcVars)
    \/ (Claim /\ UNCHANGED srcVars)
    \/ (BuildOk /\ UNCHANGED srcVars)
    \/ (BuildFail /\ UNCHANGED srcVars)
    \/ (InsertOk /\ UNCHANGED srcVars)
    \/ (InsertFail /\ UNCHANGED srcVars)

Spec == Init /\ [][Next]_vars

----------------------------------------------------------------------------
(* Properties of the registration pass (checked under Spec) *)

Directory == schemes_to_artifact_repos

HasDescriptor(s) == \E j \in DOMAIN sources : sources[j].scheme = s

Derivable(i) ==
    /\ Directory[i].scheme \notin artifact_schemes_to_exclude
    /\ ~DerivationRaises(Directory[i].artifact_repo)

TypeNameOf(i) == DeriveName(Directory[i].scheme, Directory[i].artifact_repo)

\* entry i is not excluded, and its type name is derivable and that of no
\* other such entry of the directory
Eligible(i) ==
    /\ Derivable(i)
    /\ \A k \in DOMAIN Directory :
           (k # i /\ Derivable(k)) => TypeNameOf(k) # TypeNameOf(i)

\* C1: a failure while deriving the type name, building the descriptor or
\* inserting it is never propagated to the caller of the pass: the pass never
\* ends by raising.
C1_FailureNeverPropagates == pc # "raised"

\* C2: neither the resolution table nor the class built in the try block ever
\* holds a descriptor for an excluded scheme.
C2_NoExcludedDescriptor ==
    /\ \A i \in DOMAIN sources : sources[i].scheme \notin artifact_schemes_to_exclude
    /\ \A i \in DOMAIN dataset_source :
           dataset_source[i].scheme \notin artifact_schemes_to_exclude

C2_Witness ==
    /\ pc = "done"
    /\ sources # <<>>
    /\ \E i \in DOMAIN Directory : Directory[i].scheme \in artifact_schemes_to_exclude

\* C3: once the pass has ended, every backend of the directory that is not
\* excluded and whose type name is derivable and unique has a descriptor for
\* its scheme in the resolution table (stated for the runs in which no
\* descriptor build fails, where the claim is at its weakest).
C3_EligibleRegistered ==
    (pc \in {"done", "raised"} /\ ~BuildRaises) =>
        \A i \in DOMAIN Directory : Eligible(i) => HasDescriptor(Directory[i].scheme)

C10_ClaimedBeforeDerivation ==
    /\ pc = "derive" => scheme \in registered_source_schemes
    /\ outcome = "derive_raised" => scheme \in registered_source_schemes

\* C10, amended: the type name is derived with the scheme not yet claimed; the
\* scheme is in the claimed set while the descriptor is built and inserted and
\* when the iteration has ended, also when build or insertion failed; a scheme
\* whose derivation failed is not in the claimed set.
C10_ClaimedBeforeBuild ==
    /\ pc = "derive" => scheme \notin registered_source_schemes
    /\ pc \in {"build", "insert"} => scheme \in registered_source_schemes
    /\ outcome \in {"build_failed", "insert_failed", "registered"}
           => scheme \in registered_source_schemes
    /\ outcome = "derive_raised" => scheme \notin registered_source_schemes

C10_Witness ==
    /\ pc = "loop"
    /\ outcome = "build_failed"
    /\ scheme \in registered_source_schemes

----------------------------------------------------------------------------
(* Properties of the generated class (checked under SpecSource) *)

IsUriDict(d) == DOMAIN d = {"uri"} /\ d["uri"].t = "str"

\* C6: round trip: for a dict {"uri": s}, _from_dict succeeds and _to_dict of
\* its result is the dict again; for an instance r with a string uri,
\* _from_dict of _to_dict(r) succeeds and is an instance of the same class with
\* the same uri.
C6_RoundTrip ==
    /\ (stage = "from_dict" /\ IsUriDict(input.arg)) => ~value.raised
    /\ (stage = "from_dict_to_dict" /\ IsUriDict(input.arg)) => value = input.arg
    /\ (stage = "to_dict_from_dict" /\ input.arg.uri.t = "str") =>
           /\ ~value.raised
           /\ value.source.cls = cls.name
           /\ value.source.uri = input.arg.uri

C6_Witness ==
    /\ stage = "from_dict_to_dict"
    /\ IsUriDict(input.arg)
    /\ input.arg["uri"] = PyStr(<<>>)
    /\ value = input.arg

NamesTypeAndKey(error, c) ==
    /\ error.error_code = INVALID_PARAMETER_VALUE
    /\ \E i \in DOMAIN error.message :
           /\ i + Len(c.name) - 1 <= Len(error.message)
           /\ SubSeq(error.message, i, i + Len(c.name) - 1) = c.name
    /\ \E i \in DOMAIN error.message : error.message[i] = "\"uri\""

\* C7 as stated: _from_dict fails with the invalid-parameter error naming the
\* type and the key "uri" on a dict without the key "uri", and on a dict with
\* the key it succeeds, whatever the other keys.
C7_FailsOnlyWithoutKey ==
    stage = "from_dict" =>
        IF "uri" \notin DOMAIN input.arg
        THEN value.raised /\ NamesTypeAndKey(value.error, cls)
        ELSE ~value.raised /\ value.source = ArtifactRepoSource(cls, input.arg["uri"])

\* C7, amended: _from_dict fails with that error on a dict without the key
\* "uri" and on a dict whose "uri" is None; on a dict whose "uri" is not None
\* it succeeds with that uri, whatever the other keys.
C7_FailsWithoutKeyOrOnNone ==
    stage = "from_dict" =>
        IF "uri" \notin DOMAIN input.arg \/ input.arg["uri"] = PyNone
        THEN value.raised /\ NamesTypeAndKey(value.error, cls)
        ELSE ~value.raised /\ value.source = ArtifactRepoSource(cls, input.arg["uri"])

C7_Witness ==
    /\ stage = "from_dict"
    /\ DOMAIN input.arg = Keys
    /\ input.arg["uri"] = PyNone
    /\ value.raised

\* C8: on a class whose source type is not local, _can_resolve never raises,
\* and returns true exactly when str(raw_source) parses and its parsed scheme
\* is the class's scheme; for scheme s3 it is true of s3://b/k and false of
\* https://e/x.
C8_SchemeMatch ==
    (stage = "can_resolve" /\ cls.source_type # S_local) =>
        /\ ~value.raised
        /\ value.result <=>
               /\ ~StrRaises(input.arg)
               /\ ~urlparse(input.arg.text).raised
               /\ urlparse(input.arg.text).scheme = cls.scheme
        /\ (cls.scheme = S_s3 /\ input.arg.text = T_s3
                /\ ~StrRaises(input.arg)) => value.result
        /\ input.arg.text \in {T_https, T_tmp, T_bracket} => ~value.result
        /\ (cls.scheme = S_S3 /\ input.arg.text = T_S3) => ~value.result

C8_Witness ==
    /\ stage = "can_resolve"
    /\ cls.scheme = S_s3
    /\ input.arg = [kind |-> "object", text |-> T_s3]
    /\ value.result

\* C9: a class built for scheme "" or "file" has source type local; its
\* _can_resolve never raises, is false of an input that is neither a str nor a
\* Path, false of a reference with a network or logical scheme, and true of
\* the plain path /tmp/data.
C9_LocalResolve ==
    cls.scheme \in {S_empty, S_file} =>
        /\ cls.source_type = S_local
        /\ stage = "can_resolve" =>
               /\ ~value.raised
               /\ input.arg.kind \notin {"str", "Path"} => ~value.result
               /\ input.arg.text \in {T_https, T_runs, T_s3, T_S3, T_my, T_s3_path}
                      => ~value.result
               /\ (input.arg.kind \in {"str", "Path"} /\ input.arg.text = T_tmp)
                      => value.result

C9_Witness ==
    /\ stage = "can_resolve"
    /\ cls.scheme = S_empty
    /\ input.arg = [kind |-> "Path", text |-> T_tmp]
    /\ value.result

=============================================================================
